---- MODULE Spec2Model ----
(***************************************************************************)
(* Model of the Bastion runtime facade (src/src/bastion.rs): the shared    *)
(* supervision tree, Bastion::supervisor, Bastion::spawn with its guarded  *)
(* task and completion handler, and Bastion::fault_recovery with the       *)
(* process-wide FAULTED stack and the restart trampoline.                  *)
(***************************************************************************)
EXTENDS Integers, Sequences, FiniteSets, TLC

\* ---------------------------------------------------------------- bounds
\* Number of Bastion::spawn calls the callers make.
NumChildren == 2
\* Total number of user-closure panics in a run.
MaxPanics == 3
\* Total number of envelopes the callers send through the returned handles.
MaxSends == 1
\* Number of Bastion::supervisor calls the callers make.
MaxSupervisors == 2

\* ---------------------------------------------------------------- values
Strategies == {"OneForOne", "OneForAll", "RestForOne"}

\* URNs a caller can give to Bastion::supervisor(name, system).
Urns == {"k.m", "w.f"}

RootUrn == "root"

\* The distinguished Terminate envelope.
PoisonPill == "Terminate"

\* Envelopes a caller sends through a handle.
UserMsgs == {"bye", PoisonPill}

\* The child record built by spawn call c.  Uuid::new_v4 is fresh per call, so
\* the call number stands for the identity; msg and thunk are the call's
\* message and closure, chan the unbounded channel shared by tx, rx and all
\* of their clones.
BastionChildren(c) == [id |-> c, msg |-> c, thunk |-> c, chan |-> c]

\* A Supervisor value.
Supervisor(i, u, s) ==
    [id |-> i, urn |-> u, strategy |-> s, descendants |-> <<>>, killed |-> <<>>]

\* Tramp<R>: the tagged trampoline state.
Traverse(v) == [tag |-> "Traverse", val |-> v]
Complete(v) == [tag |-> "Complete", val |-> v]
NoTramp == [tag |-> "None", val |-> <<>>]

VARIABLES
    registry,     \* PLATFORM.registry: the shared tree, a sequence of nodes
                  \* [value, parent]; node 1 is the root (parent 0)
    built,        \* the Supervisor values Bastion::supervisor has returned
    calls,        \* per spawn call: its position and its local root_spv
    handles,      \* the BastionChildren handles spawn has returned
    tasks,        \* the guarded tasks submitted to the executor, in order
    mailbox,      \* per channel: the envelopes sent and not yet received
    sent,         \* the number of envelopes the callers have sent so far
    faulted,      \* FAULTED: the stack of fault induced supervisors
    faultedLock   \* the task holding the FAULTED mutex, 0 when it is free

vars == <<registry, built, calls, handles, tasks, mailbox, sent, faulted, faultedLock>>

Root == registry[1].value

\* ------------------------------------------------------------- placement
Indices(reg) == [i \in 1..Len(reg) |-> i]

\* NodeRef::children: the children of node n, first appended first.
ChildrenOf(reg, n) == SelectSeq(Indices(reg), LAMBDA i : reg[i].parent = n)

RECURSIVE TraverseLoop(_, _, _, _)
\* Bastion::traverse_registry(registry, root, new_supervisor): `orig` is the
\* tree the NodeRefs point into, `registry` the by-value Tree this call owns.
\* The result is the final value of that owned tree, which the call drops.
TraverseRegistry(orig, registry_, root, new_supervisor) ==
    TraverseLoop(orig, registry_, ChildrenOf(orig, root), new_supervisor)

TraverseLoop(orig, registry_, kids, new_supervisor) ==
    IF kids = <<>> THEN registry_
    ELSE LET i == Head(kids)
         IN IF orig[i].value.urn = new_supervisor.urn
            THEN \* ancestor.append(k); break
                 Append(registry_, [value |-> new_supervisor, parent |-> i])
            ELSE \* the recursive call works on registry.clone(), dropped on return
                 LET dropped == TraverseRegistry(orig, registry_, i, new_supervisor)
                 IN  TraverseLoop(orig, registry_, Tail(kids), new_supervisor)

\* Bastion::traverse(ns): the shared tree as it is after the call.  The call
\* hands registry.clone() to traverse_registry, so the guarded tree is only read.
TraverseShared(reg, ns) ==
    LET cloned == TraverseRegistry(reg, reg, 1, ns)
    IN  reg

\* Bastion::supervisor(name, system): Supervisor::default().props(..) placed by
\* traverse, under the PLATFORM and registry locks for the whole call.
BastionSupervisor(u) ==
    /\ Len(built) < MaxSupervisors
    /\ LET sp == Supervisor(Len(built) + 1, u, "OneForOne")
       IN  /\ registry' = TraverseShared(registry, sp)
           /\ built' = Append(built, sp)
    /\ UNCHANGED <<calls, handles, tasks, mailbox, sent, faulted, faultedLock>>

\* --------------------------------------------------------------- spawn
\* Faulty variants of InstallChild: the push goes to a clone of the root; the
\* record is inserted at the front.
InstallChildIntoClone(root, child) == root

InstallChildAtFront(root, child) ==
    [root EXCEPT !.descendants = <<child>> \o @]

\* The root value after spawn pushed the child into root.ctx.descendants.
InstallChild(root, child) ==
    [root EXCEPT !.descendants = Append(@, child)]

\* Bastion::spawn, first critical section: install the record into the tree's
\* root and take the root_spv snapshot.  The fresh identities are opaque, so
\* the calls are numbered in the order in which they take the lock.
SpawnInstall(c) ==
    /\ calls[c].pc = "start"
    /\ \A d \in 1..(c - 1) : calls[d].pc # "start"
    /\ registry' = [registry EXCEPT ![1].value = InstallChild(@, BastionChildren(c))]
    /\ calls' = [calls EXCEPT ![c] = [pc |-> "installed", root_spv |-> <<registry'[1].value>>]]
    /\ UNCHANGED <<built, handles, tasks, mailbox, sent, faulted, faultedLock>>

\* The guarded task `k` built by spawn for child record `child`.
FirstTask(child, root_spv) ==
    [child |-> child, msg |-> child.msg, first |-> TRUE, ctx |-> root_spv,
     pc |-> "running", result |-> "none", given |-> <<>>, tramp |-> NoTramp]

\* Bastion::spawn, second critical section: submit the guarded task to the
\* shared runtime and return ret_val.
SpawnSubmit(c) ==
    /\ calls[c].pc = "installed"
    /\ tasks' = Append(tasks, FirstTask(BastionChildren(c), calls[c].root_spv[1]))
    /\ handles' = [handles EXCEPT ![c] = <<BastionChildren(c)>>]
    /\ calls' = [calls EXCEPT ![c].pc = "returned"]
    /\ UNCHANGED <<registry, built, mailbox, sent, faulted, faultedLock>>

\* The caller of spawn sends an envelope through the returned handle's tx.
Send(c, m) ==
    /\ handles[c] # <<>>
    /\ sent < MaxSends
    /\ sent' = sent + 1
    /\ mailbox' = [mailbox EXCEPT ![handles[c][1].chan] = Append(@, m)]
    /\ UNCHANGED <<registry, built, calls, handles, tasks, faulted, faultedLock>>

\* ------------------------------------------------------- the user closure
Panics == Cardinality({t \in DOMAIN tasks : tasks[t].result = "panic"})

\* The closure of task t has returned Ok.  The handler of a restarted task
\* does nothing on Ok, so that task is finished; the handler of a task
\* submitted by spawn still has to run.
Returned(t) ==
    [tasks EXCEPT ![t].pc = IF tasks[t].first THEN "handler" ELSE "done",
                  ![t].result = "ok"]

\* The closure receives from its bcast_rx; on Terminate it returns.
ChildRecv(t) ==
    /\ tasks[t].pc = "running"
    /\ mailbox[tasks[t].child.chan] # <<>>
    /\ mailbox' = [mailbox EXCEPT ![tasks[t].child.chan] = Tail(@)]
    /\ tasks' = IF Head(mailbox[tasks[t].child.chan]) = PoisonPill
                THEN Returned(t)
                ELSE tasks
    /\ UNCHANGED <<registry, built, calls, handles, sent, faulted, faultedLock>>

\* The closure returns normally.
ChildReturn(t) ==
    /\ tasks[t].pc = "running"
    /\ tasks' = Returned(t)
    /\ UNCHANGED <<registry, built, calls, handles, mailbox, sent, faulted, faultedLock>>

\* The closure panics; catch_unwind turns the unwinding into Err.
ChildPanic(t) ==
    /\ tasks[t].pc = "running"
    /\ Panics < MaxPanics
    /\ tasks' = [tasks EXCEPT ![t].pc = "handler", ![t].result = "panic"]
    /\ UNCHANGED <<registry, built, calls, handles, mailbox, sent, faulted, faultedLock>>

\* ------------------------------------------------- completion handlers
\* The handler's local `root`: a clone of the tree's root with if_killed pushed.
KilledPush(root, if_killed) ==
    [root EXCEPT !.killed = Append(@, if_killed)]

\* Faulty variant of RegistryAfterCompletion: the push reaches the tree's root.
RegistryKilledPushed(reg, if_killed) ==
    [reg EXCEPT ![1].value = KilledPush(@, if_killed)]

\* The shared tree after the completion handler: the push went to the clone.
RegistryAfterCompletion(reg, if_killed) == reg

\* Completion handler of a task submitted by spawn (runs on Ok and on Err).
CompletionHandler(t) ==
    /\ tasks[t].pc = "handler"
    /\ tasks[t].first
    /\ LET root == KilledPush(Root, tasks[t].child)
       IN  tasks' = IF tasks[t].result = "panic"
                    THEN [tasks EXCEPT ![t].pc = "recover", ![t].given = <<root>>]
                    ELSE [tasks EXCEPT ![t].pc = "done"]
    /\ registry' = RegistryAfterCompletion(registry, tasks[t].child)
    /\ UNCHANGED <<built, calls, handles, mailbox, sent, faulted, faultedLock>>

\* The supervisor the nested panic handler re-enters recovery with.
PopFaulted(faulted_ones) == faulted_ones[Len(faulted_ones)]

\* Faulty variant of LockAfterPop: the guard is still alive when the handler
\* calls fault_recovery.
LockKeptAfterPop(t) == t

\* The holder of the FAULTED mutex when the nested handler calls
\* fault_recovery: drop(faulted_ones) has released it.
LockAfterPop(t) == 0

\* Completion handler of a task submitted by fault_recovery, on Err: it pops
\* FAULTED (unwrap panics on an empty stack) and re-enters fault_recovery.
NestedHandler(t) ==
    /\ tasks[t].pc = "handler"
    /\ ~tasks[t].first
    /\ faultedLock = 0
    /\ IF faulted = <<>>
       THEN /\ tasks' = [tasks EXCEPT ![t].pc = "crashed"]
            /\ UNCHANGED faulted
       ELSE /\ tasks' = [tasks EXCEPT ![t].pc = "recover",
                                      ![t].given = <<PopFaulted(faulted)>>]
            /\ faulted' = SubSeq(faulted, 1, Len(faulted) - 1)
    /\ faultedLock' = LockAfterPop(t)
    /\ UNCHANGED <<registry, built, calls, handles, mailbox, sent>>

\* ------------------------------------------------------- fault recovery
RECURSIVE SendAll(_, _)
\* tx.send(PoisonPill::new()) to each record of `targets`, in order.
SendAll(mb, targets) ==
    IF targets = <<>> THEN mb
    ELSE SendAll([mb EXCEPT ![Head(targets).chan] = Append(@, PoisonPill)], Tail(targets))

\* rest_to_kill: descendants.retain(|i| !killed.id.contains(&i.id)); identities
\* are uuid strings of one length, so contains is equality.
RestToKill(descendants, killed) ==
    SelectSeq(descendants, LAMBDA i : i.id # killed.id)

RECURSIVE RestForOneTargets(_, _)
RestForOneTargets(descendants, killed) ==
    IF killed = <<>> THEN <<>>
    ELSE RestToKill(descendants, Head(killed)) \o RestForOneTargets(descendants, Tail(killed))

\* Faulty variant of TerminateTargets: OneForAll spares the killed records.
TerminateTargetsSparing(spv) ==
    CASE spv.strategy = "OneForOne" -> <<>>
      [] spv.strategy = "OneForAll" ->
            SelectSeq(spv.descendants, LAMBDA i : i.id \notin {spv.killed[j].id : j \in DOMAIN spv.killed})
      [] spv.strategy = "RestForOne" -> RestForOneTargets(spv.descendants, spv.killed)

\* The records fault_recovery sends Terminate to, in sending order.
TerminateTargets(spv) ==
    CASE spv.strategy = "OneForOne" -> <<>>
      [] spv.strategy = "OneForAll" -> spv.descendants
      [] spv.strategy = "RestForOne" -> RestForOneTargets(spv.descendants, spv.killed)

\* restart_needed: the killed records of the supervisor handed in, for each strategy.
RestartNeeded(spv) == spv.killed

\* Faulty variant of PushFaulted: the supervisor is not pushed.
PushFaultedDropped(faulted_ones, given) == faulted_ones

\* faulted_ones.push(given.clone())
PushFaulted(faulted_ones, given) == Append(faulted_ones, given)

\* Bastion::fault_recovery(given, message_box), up to the trampoline: take the
\* FAULTED lock (held until the function returns), push given, send the
\* strategy's Terminates and start Tramp::Traverse(restart_needed).
FaultRecoveryEnter(t) ==
    /\ tasks[t].pc = "recover"
    /\ faultedLock = 0
    /\ LET given == tasks[t].given[1]
       IN  /\ faulted' = PushFaulted(faulted, given)
           /\ mailbox' = SendAll(mailbox, TerminateTargets(given))
           /\ tasks' = [tasks EXCEPT ![t].pc = "tramp",
                                     ![t].tramp = Traverse(RestartNeeded(given))]
    /\ faultedLock' = t
    /\ UNCHANGED <<registry, built, calls, handles, sent>>

\* Faulty variant of PopChild: the step re-spawns the head while the tail is
\* what leaves the remainder.
PopChildHead(n) == n[1]

\* The record one trampoline step re-spawns: rest_child.pop() takes the tail.
PopChild(n) == n[Len(n)]

\* Faulty variant of RestartTask: the new instance reads mailbox endpoints
\* that are not those of the record.
RestartTaskOtherMailbox(children, message_box, spv) ==
    [child |-> [children EXCEPT !.chan = (children.chan % NumChildren) + 1],
     msg |-> message_box, first |-> FALSE, ctx |-> spv,
     pc |-> "running", result |-> "none", given |-> <<>>, tramp |-> NoTramp]

\* The guarded task the trampoline closure builds for `children`: its thunk,
\* a clone of fault_recovery's message_box, and the supervisor snapshot.
RestartTask(children, message_box, spv) ==
    [child |-> children, msg |-> message_box, first |-> FALSE, ctx |-> spv,
     pc |-> "running", result |-> "none", given |-> <<>>, tramp |-> NoTramp]

\* One call of the trampoline closure on Traverse(desc).
TrampTraverse(t) ==
    /\ tasks[t].pc = "tramp"
    /\ tasks[t].tramp.tag = "Traverse"
    /\ LET n == tasks[t].tramp.val
           spv == tasks[t].given[1]
       IN  IF n = <<>>
           THEN tasks' = [tasks EXCEPT ![t].tramp = Complete(n)]
           ELSE tasks' = Append([tasks EXCEPT ![t].tramp = Traverse(SubSeq(n, 1, Len(n) - 1))],
                                RestartTask(PopChild(n), tasks[t].msg, spv))
    /\ UNCHANGED <<registry, built, calls, handles, mailbox, sent, faulted, faultedLock>>

\* Tramp::Complete: execute returns, fault_recovery returns and drops the
\* FAULTED guard.
TrampComplete(t) ==
    /\ tasks[t].pc = "tramp"
    /\ tasks[t].tramp.tag = "Complete"
    /\ tasks' = [tasks EXCEPT ![t].pc = "done"]
    /\ faultedLock' = 0
    /\ UNCHANGED <<registry, built, calls, handles, mailbox, sent, faulted>>

\* ------------------------------------------------------- specification
\* RuntimeSystem::start: the tree holds the root supervisor alone.
InitRegistry(s) == <<[value |-> Supervisor(0, RootUrn, s), parent |-> 0]>>

InitRest ==
    /\ built = <<>>
    /\ calls = [c \in 1..NumChildren |-> [pc |-> "start", root_spv |-> <<>>]]
    /\ handles = [c \in 1..NumChildren |-> <<>>]
    /\ tasks = <<>>
    /\ mailbox = [c \in 1..NumChildren |-> <<>>]
    /\ sent = 0
    /\ faulted = <<>>
    /\ faultedLock = 0

Init ==
    /\ registry = InitRegistry("OneForOne")
    /\ InitRest

Next ==
    \/ \E u \in Urns : BastionSupervisor(u)
    \/ \E c \in 1..NumChildren : SpawnInstall(c)
    \/ \E c \in 1..NumChildren : SpawnSubmit(c)
    \/ \E c \in 1..NumChildren, m \in UserMsgs : Send(c, m)
    \/ \E t \in DOMAIN tasks : ChildRecv(t)
    \/ \E t \in DOMAIN tasks : ChildReturn(t)
    \/ \E t \in DOMAIN tasks : ChildPanic(t)
    \/ \E t \in DOMAIN tasks : CompletionHandler(t)
    \/ \E t \in DOMAIN tasks : NestedHandler(t)
    \/ \E t \in DOMAIN tasks : FaultRecoveryEnter(t)
    \/ \E t \in DOMAIN tasks : TrampTraverse(t)
    \/ \E t \in DOMAIN tasks : TrampComplete(t)

Spec == Init /\ [][Next]_vars

\* A supervisor built with the strategy setter: spawn and fault_recovery as
\* above, the supervisor the children live under having any strategy.
InitSup ==
    /\ \E s \in Strategies : registry = InitRegistry(s)
    /\ InitRest

SpecSup == InitSup /\ [][Next]_vars

\* The sequences of distinct children shorter than NumChildren.
KilledLists ==
    {k \in UNION {[1..n -> 1..NumChildren] : n \in 1..(NumChildren - 1)} :
        \A i, j \in DOMAIN k : i # j => k[i] # k[j]}

\* The root with the children 1..c installed.
RootWith(c) ==
    [Supervisor(0, RootUrn, "OneForOne") EXCEPT
        !.descendants = [d \in 1..c |-> BastionChildren(d)]]

\* The platform when the killed list of the tree's root holds the records of
\* `k`: every child is installed and submitted, the children of `k` have
\* completed and are recorded as killed, the others are running.
InitKilled(k) ==
    /\ registry = <<[value |-> [RootWith(NumChildren) EXCEPT
                                  !.killed = [i \in DOMAIN k |-> BastionChildren(k[i])]],
                     parent |-> 0]>>
    /\ built = <<>>
    /\ calls = [c \in 1..NumChildren |-> [pc |-> "returned", root_spv |-> <<RootWith(c)>>]]
    /\ handles = [c \in 1..NumChildren |-> <<BastionChildren(c)>>]
    /\ tasks = [c \in 1..NumChildren |->
                  IF \E i \in DOMAIN k : k[i] = c
                  THEN [FirstTask(BastionChildren(c), RootWith(c)) EXCEPT
                          !.pc = "done", !.result = "ok"]
                  ELSE FirstTask(BastionChildren(c), RootWith(c))]
    /\ mailbox = [c \in 1..NumChildren |-> <<>>]
    /\ sent = 0
    /\ faulted = <<>>
    /\ faultedLock = 0

\* The platform as start leaves it, or with killed records in the tree.
InitTramp == Init \/ \E k \in KilledLists : InitKilled(k)

SpecTramp == InitTramp /\ [][Next]_vars

\* ------------------------------------------------------------ vocabulary
Ids(records) == {records[i].id : i \in DOMAIN records}

\* Task t panicked and its handler has entered fault_recovery.
Entered(t) == tasks[t].result = "panic" /\ tasks[t].pc \in {"tramp", "done"}

PanicsOf(c) ==
    Cardinality({t \in DOMAIN tasks : tasks[t].child.id = c /\ tasks[t].result = "panic"})

RestartsOf(c) ==
    Cardinality({t \in DOMAIN tasks : tasks[t].child.id = c /\ ~tasks[t].first})

\* Every submitted task has finished, handler and recovery included.
Settled == \A t \in DOMAIN tasks : tasks[t].pc = "done"

\* In this step the recovery run by task t submits a task.
Submits(t) ==
    /\ tasks[t].pc = "tramp"
    /\ tasks'[t].tramp # tasks[t].tramp
    /\ Len(tasks') = Len(tasks) + 1

\* ------------------------------------------------------------------ C1
\* C1 (isolation): under the OneForOne root, every task a recovery submits is
\* an instance of the child whose panic that recovery handles; no instance
\* of a different child is submitted as a consequence of the panic.
C1_Isolation ==
    [][\A t \in DOMAIN tasks :
          Submits(t) => tasks'[Len(tasks')].child.id = tasks[t].child.id]_vars

\* ------------------------------------------------------------------ C2
EnteredWith(c) ==
    Cardinality({t \in DOMAIN tasks : Entered(t) /\ c \in Ids(RestartNeeded(tasks[t].given[1]))})

EnteredPanicsOf(c) ==
    Cardinality({t \in DOMAIN tasks : Entered(t) /\ tasks[t].child.id = c})

\* C2 (progress, re-entry on the same supervisor): at every instant the
\* number of recoveries entered with child c in the restart set equals the
\* number of panics of c handed to recovery, and a restarted instance that
\* panicked re-enters recovery with the supervisor whose recovery submitted it.
C2_Progress ==
    /\ \A c \in 1..NumChildren : EnteredWith(c) = EnteredPanicsOf(c)
    /\ \A t \in DOMAIN tasks :
          (~tasks[t].first /\ tasks[t].given # <<>>) => tasks[t].given[1] = tasks[t].ctx

\* ------------------------------------------------------------------ C3
\* C3 (faulted stack discipline): once every panicked child has been
\* restarted into an instance that returned and no recovery is in progress,
\* the FAULTED stack is empty.
C3_StackDrained == Settled => faulted = <<>>

\* ------------------------------------------------------------------ C4
HandlerRan(t) == tasks[t].first /\ tasks[t].pc \in {"recover", "tramp", "done"}

\* C4 (completion recording): once the completion handler of a task submitted
\* by spawn has run, the child's record is in the killed sequence of the root
\* node of the shared tree.
C4_KilledRecorded ==
    \A t \in DOMAIN tasks : HandlerRan(t) => tasks[t].child.id \in Ids(Root.killed)

\* ------------------------------------------------------------------ C5
KilledSubset(spv) == Ids(spv.killed) \subseteq Ids(spv.descendants)

SupervisorValues ==
    {registry[n].value : n \in DOMAIN registry}
    \cup {tasks[t].ctx : t \in DOMAIN tasks}
    \cup {tasks[t].given[1] : t \in {u \in DOMAIN tasks : tasks[u].given # <<>>}}
    \cup {calls[c].root_spv[1] : c \in {d \in DOMAIN calls : calls[d].root_spv # <<>>}}
    \cup {faulted[i] : i \in DOMAIN faulted}
    \cup {built[i] : i \in DOMAIN built}

\* C5 (killed subset): in every supervisor value of the program (the nodes
\* of the tree, the snapshots handed to fault_recovery, the snapshots in the
\* child contexts and in the spawn calls, the entries of FAULTED, the values
\* returned by supervisor()) every killed record has the identity of a
\* record of that value's descendants.
C5_KilledSubset == \A spv \in SupervisorValues : KilledSubset(spv)

\* Two children have panicked, their snapshots with a killed record are on FAULTED.
C5_Witness ==
    /\ Len(faulted) >= 2
    /\ \E i, j \in DOMAIN faulted : faulted[i].killed # <<>> /\ faulted[j].killed # faulted[i].killed
    /\ \E t \in DOMAIN tasks : ~tasks[t].first /\ tasks[t].ctx.killed # <<>>

\* ------------------------------------------------------------------ C6
RECURSIVE PreOrderFrom(_, _, _)
PreOrderFrom(reg, kids, acc) ==
    IF kids = <<>> THEN acc
    ELSE PreOrderFrom(reg, ChildrenOf(reg, Head(kids)) \o Tail(kids), Append(acc, Head(kids)))

PreOrder(reg) == PreOrderFrom(reg, <<1>>, <<>>)

NodesOf(reg, sp) == {n \in DOMAIN reg : reg[n].value.id = sp.id}

PlacedByRule(reg, n) ==
    LET earlier == SubSeq(reg, 1, n - 1)
        matches == SelectSeq(PreOrder(earlier), LAMBDA m : earlier[m].value.urn = reg[n].value.urn)
    IN  reg[n].parent = IF matches = <<>> THEN 1 ELSE Head(matches)

\* C6 (placement rule): every supervisor returned by supervisor() is in the
\* shared tree exactly once; its parent is the first node in pre-order, among
\* the nodes installed before it, whose URN equals its URN, and the root when
\* there is none.
C6_Placement ==
    \A i \in DOMAIN built :
        /\ Cardinality(NodesOf(registry, built[i])) = 1
        /\ \A n \in NodesOf(registry, built[i]) : PlacedByRule(registry, n)

\* ------------------------------------------------------------------ C7
NoTwinSiblings(reg) ==
    \A m, n \in DOMAIN reg :
        (m # n /\ reg[m].parent = reg[n].parent) => reg[m].value.urn # reg[n].value.urn

RootedTree(reg) ==
    /\ reg[1].parent = 0
    /\ \A n \in DOMAIN reg : n > 1 => reg[n].parent \in 1..(n - 1)

\* C7 (placement determinism): no two nodes with the same URN are siblings;
\* a supervisor created with the URN of an earlier one is a child of the
\* first supervisor created with that URN; the tree is a single rooted tree.
C7_PlacementDeterminism ==
    /\ NoTwinSiblings(registry)
    /\ RootedTree(registry)
    /\ \A i, j \in DOMAIN built :
          (i < j /\ built[i].urn = built[j].urn
                 /\ \A h \in 1..(i - 1) : built[h].urn # built[i].urn)
          => \E m, n \in DOMAIN registry :
                /\ registry[m].value.id = built[i].id
                /\ registry[n].value.id = built[j].id
                /\ registry[n].parent = m

\* ------------------------------------------------------------------ C8
Installed == {c \in DOMAIN calls : calls[c].pc # "start"}

FirstTasksOf(c) == {t \in DOMAIN tasks : tasks[t].first /\ tasks[t].child.id = c}

\* C8 (spawn installation): the root's descendants in the tree hold exactly
\* one record per spawn call that has taken the tree lock, with pairwise
\* distinct identities, in the order of taking the lock; every returned handle
\* carries the identity and the mailbox producer of the record its call
\* installed; exactly one guarded task has been submitted per returned spawn
\* and none for a spawn that has not submitted yet.
C8_SpawnInstallation ==
    /\ Len(Root.descendants) = Cardinality(Installed)
    /\ \A i \in DOMAIN Root.descendants : Root.descendants[i].id = i /\ i \in Installed
    /\ \A c \in DOMAIN calls :
          IF calls[c].pc = "returned"
          THEN /\ Len(handles[c]) = 1
               /\ handles[c][1].id = Root.descendants[c].id
               /\ handles[c][1].chan = Root.descendants[c].chan
               /\ Cardinality(FirstTasksOf(c)) = 1
          ELSE handles[c] = <<>> /\ FirstTasksOf(c) = {}

\* Every spawn has returned, interleaved with supervisor() calls, and a
\* recovery has re-submitted a child in between.
C8_Witness ==
    /\ \A c \in DOMAIN calls : calls[c].pc = "returned"
    /\ built # <<>>
    /\ \E t \in DOMAIN tasks : ~tasks[t].first
    /\ Len(Root.descendants) = NumChildren

\* ------------------------------------------------------------------ C9
RECURSIVE Queued(_)
Queued(c) == IF c = 0 THEN 0 ELSE Len(mailbox[c]) + Queued(c - 1)

\* C9 (OneForOne): recovery under the OneForOne root puts no envelope into any
\* mailbox (all queued envelopes were sent by callers); once every task has
\* finished, each child has been restarted exactly once per panic and the
\* root's killed holds no entry pending restart.
C9_OneForOne ==
    /\ Queued(NumChildren) <= sent
    /\ Settled => /\ \A c \in 1..NumChildren : RestartsOf(c) = PanicsOf(c)
                  /\ Root.killed = <<>>

\* ------------------------------------------------------------------ C10
CascadeDone ==
    /\ Root.strategy = "OneForAll"
    /\ Settled
    /\ sent = 0
    /\ \A c \in 1..NumChildren : mailbox[c] = <<>>
    /\ \E t \in DOMAIN tasks :
          /\ tasks[t].first
          /\ Entered(t)
          /\ Len(tasks[t].given[1].descendants) = NumChildren
          /\ \A u \in DOMAIN tasks : tasks[u].result = "panic" => u = t

\* C10 (OneForAll cascade): under a OneForAll supervisor, when a child's first
\* run panicked with all children installed, the callers sent nothing, every
\* Terminate sent by recovery has been received (the siblings returned on it)
\* and every task has finished, a new instance of every child has been submitted.
C10_OneForAllCascade ==
    CascadeDone => \A c \in 1..NumChildren : RestartsOf(c) >= 1

\* ------------------------------------------------------------------ C11
\* In this step task t enters fault_recovery: it takes the FAULTED lock,
\* pushes and sends the strategy's Terminates.
EntersRecovery(t) == tasks[t].pc = "recover" /\ tasks'[t].pc = "tramp"

\* The identities installed after every record of `killed` that is installed.
InstalledAfter(descendants, killed) ==
    {descendants[j].id : j \in {j \in DOMAIN descendants :
        \E i \in DOMAIN descendants : i < j /\ descendants[i].id \in Ids(killed)}}

\* C11 (RestForOne order): when recovery is entered with a RestForOne
\* supervisor, exactly the children installed after the killed child get one
\* Terminate; the children installed before it and the killed child get none.
C11_RestForOneOrder ==
    [][\A t \in DOMAIN tasks :
          (EntersRecovery(t) /\ tasks[t].given[1].strategy = "RestForOne") =>
             LET given == tasks[t].given[1]
                 after == InstalledAfter(given.descendants, given.killed)
             IN  \A c \in 1..NumChildren :
                    mailbox'[c] = IF c \in after THEN Append(mailbox[c], PoisonPill)
                                  ELSE mailbox[c]]_vars

\* ------------------------------------------------------------------ C12
\* C12 (restart payload): every instance submitted by a recovery, first or
\* nested, carries the closure and the initial message of the child it is an
\* instance of.
C12_RestartPayload ==
    \A t \in DOMAIN tasks :
        ~tasks[t].first =>
            /\ tasks[t].child.thunk = BastionChildren(tasks[t].child.id).thunk
            /\ tasks[t].msg = BastionChildren(tasks[t].child.id).msg

\* ------------------------------------------------------------------ C13
\* Child c's mailbox changes in this step only by a send at its tail or by a
\* running instance of c taking its head.
MailboxStep(c) ==
    \/ mailbox'[c] = mailbox[c]
    \/ \E m \in UserMsgs : mailbox'[c] = Append(mailbox[c], m)
    \/ /\ mailbox[c] # <<>>
       /\ mailbox'[c] = Tail(mailbox[c])
       /\ \E t \in DOMAIN tasks : tasks[t].pc = "running" /\ tasks[t].child.id = c

\* Every restarted instance is the record the caller's handle holds: same
\* identity, same mailbox endpoints.
SameEndpoints ==
    \A t \in DOMAIN tasks :
        ~tasks[t].first =>
            /\ handles[tasks[t].child.id] # <<>>
            /\ tasks[t].child = handles[tasks[t].child.id][1]

C14_FaultedLockScope ==
    [][\A t \in DOMAIN tasks : Submits(t) => faultedLock # t]_vars

\* ------------------------------------------------------------------ C15
\* The closure of the task spawn submitted for child c returned normally.
ReturnedNormally(t) == tasks[t].first /\ tasks[t].result = "ok"

\* Nothing of recovery concerns the child of task t.
Untouched(t) ==
    /\ tasks[t].pc \in {"handler", "done"}
    /\ tasks[t].given = <<>>
    /\ RestartsOf(tasks[t].child.id) = 0
    /\ tasks[t].child.id \notin Ids(Root.killed)
    /\ \A i \in DOMAIN faulted : tasks[t].child.id \notin Ids(faulted[i].killed)

\* C15 (happy path): a root child whose closure returns normally never enters
\* fault_recovery, has no instance re-submitted, has no entry on the faulted
\* stack or in the root's killed list, and its completion handler changes
\* neither the stack nor the submitted tasks.
C15_HappyPath ==
    /\ [](\A t \in DOMAIN tasks : ReturnedNormally(t) => Untouched(t))
    /\ [][\A t \in DOMAIN tasks :
            (ReturnedNormally(t) /\ tasks[t].pc = "handler" /\ tasks'[t].pc # "handler")
               => /\ tasks'[t].pc = "done"
                  /\ faulted' = faulted
                  /\ Len(tasks') = Len(tasks)
                  /\ Root' = Root]_vars

\* A child returned normally and its completion handler has run, while
\* another child's panic is being recovered.
C15_Witness ==
    \E t, u \in DOMAIN tasks :
        /\ ReturnedNormally(t)
        /\ tasks[t].pc = "done"
        /\ Entered(u)

TrampStep(t) ==
    LET tr == tasks[t].tramp
        tr2 == tasks'[t].tramp
        new == tasks'[Len(tasks')].child
    IN  IF tr.tag = "Traverse" /\ tr.val # <<>>
        THEN /\ Len(tasks') = Len(tasks) + 1
             /\ tasks'[t].pc = "tramp"
             /\ tr2.tag = "Traverse"
             /\ Len(tr2.val) = Len(tr.val) - 1
             /\ new.id \in Ids(tr.val)
             /\ Ids(tr2.val) = Ids(tr.val) \ {new.id}
        ELSE IF tr.tag = "Traverse"
        THEN /\ Len(tasks') = Len(tasks)
             /\ tasks'[t].pc = "tramp"
             /\ tr2 = Complete(<<>>)
        ELSE /\ Len(tasks') = Len(tasks)
             /\ tasks'[t].pc = "done"

C18_OneForAllSelfTermination ==
    [][\A t \in DOMAIN tasks :
          tasks[t].given # <<>> /\ tasks[t].given[1].strategy = "OneForAll" =>
             LET given == tasks[t].given[1]
             IN  /\ EntersRecovery(t) =>
                       /\ Ids(given.killed) \subseteq Ids(given.descendants)
                       /\ \A c \in 1..NumChildren :
                             mailbox'[c] = IF c \in Ids(given.descendants)
                                           THEN Append(mailbox[c], PoisonPill)
                                           ELSE mailbox[c]
                 /\ Submits(t) =>
                       LET new == tasks'[Len(tasks')]
                       IN  /\ new.child.id \in Ids(given.killed)
                           /\ new.pc = "running"
                           /\ \E i \in DOMAIN mailbox'[new.child.chan] :
                                 mailbox'[new.child.chan][i] = PoisonPill]_vars

\* The new instance of the killed child is running under a OneForAll
\* supervisor with a Terminate at the head of its mailbox.
C18_Witness ==
    \E t \in DOMAIN tasks :
        /\ ~tasks[t].first
        /\ tasks[t].pc = "running"
        /\ tasks[t].ctx.strategy = "OneForAll"
        /\ tasks[t].child.id \in Ids(tasks[t].ctx.killed)
        /\ mailbox[tasks[t].child.chan] # <<>>
        /\ Head(mailbox[tasks[t].child.chan]) = PoisonPill

\* ------------------------------------------------------------------ C19
\* The restarted instances that are running or whose nested handler is about
\* to pop.
MayPop ==
    {t \in DOMAIN tasks : ~tasks[t].first /\ tasks[t].pc \in {"running", "handler"}}

\* C19 (pop never underflows): the restarted instances that are running or
\* about to pop never outnumber the entries of the faulted stack, and no
\* nested handler has found the stack empty.
C19_PopNeverUnderflows ==
    /\ Cardinality(MayPop) <= Len(faulted)
    /\ \A t \in DOMAIN tasks : tasks[t].pc # "crashed"

\* The nested handler of a restarted instance has popped the stack while
\* another restarted instance may still pop.
C19_Witness ==
    \E t, u \in DOMAIN tasks :
        /\ ~tasks[t].first
        /\ tasks[t].result = "panic"
        /\ tasks[t].pc = "recover"
        /\ u \in MayPop

\* ------------------------------------------------------------------ C20
\* Acquisition rank of the three mutexes.
Rank(l) == CASE l = "faulted" -> 1 [] l = "platform" -> 2 [] l = "tree" -> 3

\* The locks the thread of task t holds between two steps.
Held(t) == IF faultedLock = t THEN <<"faulted">> ELSE <<>>

\* The locks the thread of task t acquires, in order, in its next step.
Wants(t) ==
    CASE tasks[t].pc = "handler" /\ tasks[t].first -> <<"platform", "tree">>
      [] tasks[t].pc = "handler" /\ ~tasks[t].first -> <<"faulted">>
      [] tasks[t].pc = "recover" -> <<"faulted">>
      [] tasks[t].pc = "tramp" /\ tasks[t].tramp.tag = "Traverse"
            /\ tasks[t].tramp.val # <<>> -> <<"platform">>
      [] OTHER -> <<>>

Ascending(ls) == \A i, j \in DOMAIN ls : i < j => Rank(ls[i]) < Rank(ls[j])

\* The next step of task t is enabled.
CanStep(t) ==
    \/ ENABLED ChildReturn(t)
    \/ ENABLED CompletionHandler(t)
    \/ ENABLED NestedHandler(t)
    \/ ENABLED FaultRecoveryEnter(t)
    \/ ENABLED TrampTraverse(t)
    \/ ENABLED TrampComplete(t)

\* C20 (deadlock freedom): the FAULTED lock is held by at most one thread and
\* only inside the trampoline; every thread acquires locks in the one order
\* faulted, platform, tree and never one it holds, so the faulted lock is
\* never held when the tree lock is taken; a thread running user code holds
\* no lock; and every unfinished thread either can step or waits for the
\* FAULTED lock while its holder can step.
C20_DeadlockFreedom ==
    /\ faultedLock \in {0} \cup DOMAIN tasks
    /\ \A t \in DOMAIN tasks :
          /\ Ascending(Held(t) \o Wants(t))
          /\ tasks[t].pc = "running" => Held(t) = <<>>
          /\ tasks[t].pc # "done" =>
                \/ CanStep(t)
                \/ /\ Wants(t) = <<"faulted">>
                   /\ faultedLock \in DOMAIN tasks \ {t}
                   /\ CanStep(faultedLock)

\* A nested handler waits for the FAULTED lock while another recovery holds
\* it and is about to take the platform lock.
C20_Witness ==
    \E t, h \in DOMAIN tasks :
        /\ ~tasks[t].first
        /\ tasks[t].pc = "handler"
        /\ faultedLock = h
        /\ h # t
        /\ Wants(h) = <<"platform">>

====
